---------------------------- MODULE Spec2Model ----------------------------
(***************************************************************************)
(* A model of incremental-tui (src/src/app.rs): the progression engine     *)
(* (tick), the upgrade resolver (upgrade_resource / upgrade_cost), the     *)
(* event loop (run / handle_events / handle_key_event) and persistence     *)
(* (save / load with offline catch-up).                                    *)
(*                                                                         *)
(* Numbers keep the width the Rust code gives them.  TLC's integers are    *)
(* 32 bit, so a u64 is a natural number written as a little-endian         *)
(* sequence of limbs in base 2^15 (<<>> is 0, no leading zero limb), and   *)
(* an f64 is a pair [m, e] standing for m * 2^e with m odd (or 0) and at   *)
(* most 53 bits, rounded to nearest-even after every operation like the    *)
(* IEEE-754 double of the hardware.                                        *)
(***************************************************************************)
EXTENDS Integers, Sequences, FiniteSets, TLC

\* F(x) with x evaluated once, before F is: `Strict(LAMBDA v : e, x)` is
\* `LET v == x IN e` for a value x that e uses more than once (TLC passes
\* arguments and LET definitions unevaluated, and a long loop would nest
\* them too deep)
Strict(F(_), x) == CHOOSE r \in { F(v) : v \in {x} } : TRUE

(***************************************************************************)
(* Natural numbers of any size: the carrier of u64 and of f64 significands *)
(***************************************************************************)
\* a limb holds 15 bits: the product of two limbs plus a carry stays below 2^31
Base == 2^15

RECURSIVE NNorm(_)
NNorm(s) ==
  IF s = <<>> THEN <<>>
  ELSE IF s[Len(s)] = 0 THEN NNorm(SubSeq(s, 1, Len(s) - 1)) ELSE s

RECURSIVE NFromInt(_)
NFromInt(n) ==
  IF n = 0 THEN <<>> ELSE <<n % Base>> \o NFromInt(n \div Base)

\* the integer value of a natural known to be small (at most two limbs)
NToInt(a) ==
  IF a = <<>> THEN 0
  ELSE IF Len(a) = 1 THEN a[1] ELSE a[1] + Base * a[2]

RECURSIVE NAddC(_, _, _)
NAddC(a, b, c) ==
  IF a = <<>> /\ b = <<>> THEN (IF c = 0 THEN <<>> ELSE <<c>>)
  ELSE IF b = <<>> /\ c = 0 THEN a
  ELSE IF a = <<>> /\ c = 0 THEN b
  ELSE LET x == (IF a = <<>> THEN 0 ELSE Head(a))
                + (IF b = <<>> THEN 0 ELSE Head(b)) + c
       IN  <<x % Base>> \o NAddC(IF a = <<>> THEN <<>> ELSE Tail(a),
                                 IF b = <<>> THEN <<>> ELSE Tail(b),
                                 x \div Base)

NAdd(a, b) == NAddC(a, b, 0)

\* -1, 0, 1 as a < b, a = b, a > b
RECURSIVE NCmpAt(_, _, _)
NCmpAt(a, b, i) ==
  IF i = 0 THEN 0
  ELSE IF a[i] < b[i] THEN -1
  ELSE IF a[i] > b[i] THEN 1
  ELSE NCmpAt(a, b, i - 1)

NCmp(a, b) ==
  IF Len(a) < Len(b) THEN -1
  ELSE IF Len(a) > Len(b) THEN 1
  ELSE NCmpAt(a, b, Len(a))

NLt(a, b) == NCmp(a, b) = -1
NLe(a, b) == NCmp(a, b) # 1

\* a - b for a >= b
RECURSIVE NSubB(_, _, _)
NSubB(a, b, c) ==
  IF a = <<>> THEN <<>>
  ELSE IF b = <<>> /\ c = 0 THEN a
  ELSE LET x == Head(a) - (IF b = <<>> THEN 0 ELSE Head(b)) - c
       IN  <<(x + Base) % Base>>
           \o NSubB(Tail(a), IF b = <<>> THEN <<>> ELSE Tail(b),
                    IF x < 0 THEN 1 ELSE 0)

NSub(a, b) == NNorm(NSubB(a, b, 0))

\* a * k for a single limb k
RECURSIVE NMulSmallC(_, _, _)
NMulSmallC(a, k, c) ==
  IF a = <<>> THEN (IF c = 0 THEN <<>> ELSE <<c>>)
  ELSE LET x == Head(a) * k + c
       IN  <<x % Base>> \o NMulSmallC(Tail(a), k, x \div Base)

NMulSmall(a, k) == IF k = 0 THEN <<>> ELSE NMulSmallC(a, k, 0)

NShiftLimb(a) == IF a = <<>> THEN <<>> ELSE <<0>> \o a

RECURSIVE NMul(_, _)
NMul(a, b) ==
  IF a = <<>> \/ b = <<>> THEN <<>>
  ELSE NAdd(NMulSmall(a, Head(b)), NShiftLimb(NMul(a, Tail(b))))

\* <<quotient, remainder>> of a by a single limb d > 0
RECURSIVE NDivModSmallAt(_, _, _, _, _)
NDivModSmallAt(a, d, i, q, r) ==
  IF i = 0 THEN <<NNorm(q), r>>
  ELSE LET x == r * Base + a[i]
       IN  NDivModSmallAt(a, d, i - 1, <<x \div d>> \o q, x % d)

NDivModSmall(a, d) == NDivModSmallAt(a, d, Len(a), <<>>, 0)

RECURSIVE NZeros(_)
NZeros(n) == IF n = 0 THEN <<>> ELSE <<0>> \o NZeros(n - 1)

\* a * 2^k
NShl(a, k) ==
  IF a = <<>> THEN <<>>
  ELSE NZeros(k \div 15) \o NMulSmall(a, 2^(k % 15))

\* floor(a / 2^k)
NShr(a, k) ==
  IF Len(a) <= k \div 15 THEN <<>>
  ELSE NDivModSmall(SubSeq(a, (k \div 15) + 1, Len(a)),
                    2^(k % 15))[1]

\* a mod 2^k
NLow(a, k) ==
  IF Len(a) <= k \div 15 THEN a
  ELSE NNorm(SubSeq(a, 1, k \div 15)
             \o <<a[(k \div 15) + 1] % (2^(k % 15))>>)

RECURSIVE IntBitLen(_)
IntBitLen(n) == IF n = 0 THEN 0 ELSE 1 + IntBitLen(n \div 2)

NBitLen(a) ==
  IF a = <<>> THEN 0 ELSE 15 * (Len(a) - 1) + IntBitLen(a[Len(a)])

NBit(a, i) ==
  IF Len(a) <= i \div 15 THEN 0
  ELSE (a[(i \div 15) + 1] \div (2^(i % 15))) % 2

\* the number of trailing zero bits of a > 0
RECURSIVE IntTrailingZeros(_)
IntTrailingZeros(n) == IF n % 2 = 1 THEN 0 ELSE 1 + IntTrailingZeros(n \div 2)

RECURSIVE NTrailingZeros(_)
NTrailingZeros(a) ==
  IF Head(a) = 0 THEN 15 + NTrailingZeros(Tail(a))
  ELSE IntTrailingZeros(Head(a))

\* the largest x in lo..hi with x * d <= r
RECURSIVE NQuotDigit(_, _, _, _)
NQuotDigit(r, d, lo, hi) ==
  IF lo = hi THEN lo
  ELSE LET mid == (lo + hi + 1) \div 2
       IN  IF NLe(NMulSmall(d, mid), r) THEN NQuotDigit(r, d, mid, hi)
           ELSE NQuotDigit(r, d, lo, mid - 1)

\* <<quotient, remainder>> of a by any d > 0: long division, a limb at a time
RECURSIVE NDivModAt(_, _, _, _, _)
NDivModAt(a, d, i, q, r) ==
  IF i = 0 THEN <<NNorm(q), r>>
  ELSE LET r2 == NNorm(<<a[i]>> \o r)
           x  == NQuotDigit(r2, d, 0, Base - 1)
       IN  NDivModAt(a, d, i - 1, <<x>> \o q, NSub(r2, NMulSmall(d, x)))

NDivMod(a, d) ==
  IF Len(d) = 1 THEN LET s == NDivModSmall(a, d[1]) IN <<s[1], NFromInt(s[2])>>
  ELSE NDivModAt(a, d, Len(a), <<>>, <<>>)

\* b^n, in naturals of any size
RECURSIVE NPow(_, _)
NPow(b, n) ==
  IF n = 0 THEN <<1>>
  ELSE IF n % 2 = 1 THEN NMul(b, NPow(b, n - 1))
  ELSE Strict(LAMBDA h : NMul(h, h), NPow(b, n \div 2))


(***************************************************************************)
(* u64: naturals below 2^64                                                *)
(***************************************************************************)
N0 == <<>>
N1 == <<1>>
U64Modulus == NShl(N1, 64)
U64Max == NSub(U64Modulus, N1)
U32Modulus == NShl(N1, 32)

(***************************************************************************)
(* f64: m * 2^e, m odd or 0, at most 53 bits.  Every value the program     *)
(* computes is finite, non-negative and far from the subnormal and the     *)
(* overflow range, so the exponent is left unbounded and there is no sign, *)
(* infinity or NaN.                                                        *)
(***************************************************************************)
F64Digits == 53
FZero == [m |-> <<>>, e |-> 0]

\* m * 2^e with the trailing zero bits of m moved into the exponent
FCanon(M, e) ==
  IF M = <<>> THEN FZero
  ELSE LET tz == NTrailingZeros(M)
       IN  [m |-> NShr(M, tz), e |-> e + tz]

\* the f64 nearest to M * 2^e, ties to even
FRound(M, e) ==
  IF NBitLen(M) <= F64Digits THEN FCanon(M, e)
  ELSE LET s    == NBitLen(M) - F64Digits
           q    == NShr(M, s)
           c    == NCmp(NLow(M, s), NShl(N1, s - 1))
           up   == c = 1 \/ (c = 0 /\ q[1] % 2 = 1)
       IN  FCanon(IF up THEN NAdd(q, N1) ELSE q, e + s)

\* the f64 nearest to (N / D) * 2^e, D > 0: the quotient is taken to at
\* least 55 bits and the remainder kept as a sticky bit below them
FRat(N, D, e) ==
  IF N = <<>> THEN FZero
  ELSE Strict(LAMBDA k :
         Strict(LAMBDA qr :
           FRound(NAdd(NShl(qr[1], 1), IF qr[2] = <<>> THEN N0 ELSE N1),
                  e - k - 1),
           NDivMod(NShl(N, k), D)),
         IF F64Digits + 2 + NBitLen(D) > NBitLen(N)
         THEN F64Digits + 2 + NBitLen(D) - NBitLen(N) ELSE 0)

\* a decimal literal num/den of the source, as the compiler rounds it
FLit(num, den) == FRat(NFromInt(num), NFromInt(den), 0)

\* `n as f64`
FFromU64(n) == FRound(n, 0)

FMul(a, b) == FRound(NMul(a.m, b.m), a.e + b.e)

FDiv(a, b) == FRat(a.m, b.m, a.e - b.e)

FMinExp(a, b) == IF a.e < b.e THEN a.e ELSE b.e

FAdd(a, b) ==
  IF a.m = <<>> THEN b
  ELSE IF b.m = <<>> THEN a
  ELSE FRound(NAdd(NShl(a.m, a.e - FMinExp(a, b)),
                   NShl(b.m, b.e - FMinExp(a, b))), FMinExp(a, b))

FCmp(a, b) ==
  IF a.m = <<>> /\ b.m = <<>> THEN 0
  ELSE IF a.m = <<>> THEN -1
  ELSE IF b.m = <<>> THEN 1
  ELSE NCmp(NShl(a.m, a.e - FMinExp(a, b)), NShl(b.m, b.e - FMinExp(a, b)))

FLt(a, b) == FCmp(a, b) = -1

\* f64::floor of a value >= 0
FFloor(a) == IF a.e >= 0 THEN a ELSE FCanon(NShr(a.m, -a.e), 0)

\* f64::fract of a value >= 0: self - self.trunc(), which is exact
FFract(a) == IF a.e >= 0 THEN FZero ELSE FCanon(NLow(a.m, -a.e), a.e)

\* `x as u64` for x >= 0: the integer part, saturating at u64::MAX
FToU64(a) ==
  IF a.e >= 0
  THEN IF NBitLen(a.m) + a.e > 64 THEN U64Max ELSE NShl(a.m, a.e)
  ELSE NShr(a.m, -a.e)


(***************************************************************************)
(* Fixed-width unsigned arithmetic.  Each operation yields the wrapped     *)
(* value v and whether the true result left the type (o): a build with     *)
(* overflow checks (debug) panics on o, one without (release) goes on      *)
(* with v.                                                                 *)
(***************************************************************************)
U64Add(a, b) ==
  LET x == NAdd(a, b)
  IN  [v |-> NLow(x, 64), o |-> NLe(U64Modulus, x)]

U64Sub(a, b) ==
  IF NLe(b, a) THEN [v |-> NSub(a, b), o |-> FALSE]
  ELSE [v |-> NSub(NAdd(a, U64Modulus), b), o |-> TRUE]

U64Mul(a, b) ==
  LET x == NMul(a, b)
  IN  [v |-> NLow(x, 64), o |-> NLe(U64Modulus, x)]

\* `x as u32` of a u64: the low 32 bits
U64AsU32(a) == NLow(a, 32)

U32Add(a, b) ==
  LET x == NAdd(a, b)
  IN  [v |-> NLow(x, 32), o |-> NLe(U32Modulus, x)]

\* u64::pow(self, exp: u32), by squaring as in core::num: acc and base are
\* multiplied in u64, and the last squaring is not computed.  st is the
\* loop's state [base, exp, acc] and o whether a product has overflowed.
RECURSIVE U64PowLoop(_)
U64PowLoop(st) ==
  LET odd  == st.exp[1] % 2 = 1
      acc2 == IF odd THEN U64Mul(st.acc, st.base) ELSE [v |-> st.acc, o |-> FALSE]
      sq   == U64Mul(st.base, st.base)
  IN  IF odd /\ st.exp = N1 THEN [v |-> acc2.v, o |-> st.o \/ acc2.o]
      ELSE Strict(U64PowLoop,
                  [base |-> sq.v, exp |-> NShr(st.exp, 1), acc |-> acc2.v,
                   o |-> st.o \/ acc2.o \/ sq.o])

U64Pow(base, exp) ==
  IF exp = N0 THEN [v |-> N1, o |-> FALSE]
  ELSE U64PowLoop([base |-> base, exp |-> exp, acc |-> N1, o |-> FALSE])

(***************************************************************************)
(* Economy model                                                           *)
(***************************************************************************)
ResourceType == {"Wood", "Stone", "Iron", "Diamond"}

Cost(amount, resource_type) ==
  [amount |-> amount, resource_type |-> resource_type]

\* Resource::new(name, progress_per_tick, cost)
Resource(name, progress_per_tick, cost) ==
  [resource_type |-> name, amount |-> N0, level |-> N0, cost |-> cost,
   progress |-> FZero, progress_per_tick |-> progress_per_tick]

start_with(r, amount) == [r EXCEPT !.amount = amount]

\* the default roster with 3 Wood to start with, Stone's price
DefaultRich ==
  << start_with(Resource("Wood", FLit(1, 1), Cost(NFromInt(2), "Wood")),
                NFromInt(3)),
     Resource("Stone", FLit(5, 10), Cost(NFromInt(3), "Wood")),
     Resource("Iron", FLit(1, 10), Cost(NFromInt(4), "Stone")),
     Resource("Diamond", FLit(10, 1000), Cost(NFromInt(5), "Iron")) >>

\* GameState::default().resources
DefaultResources ==
  << start_with(Resource("Wood", FLit(1, 1), Cost(NFromInt(2), "Wood")),
                NFromInt(2)),
     Resource("Stone", FLit(5, 10), Cost(NFromInt(3), "Wood")),
     Resource("Iron", FLit(1, 10), Cost(NFromInt(4), "Stone")),
     Resource("Diamond", FLit(10, 1000), Cost(NFromInt(5), "Iron")) >>

\* Resource::upgrade_cost: cost.amount.pow(level as u32 + 1), in the base
\* cost's kind; panic says that a checked build panics in the addition or
\* in the power
upgrade_cost(r, checks) ==
  Strict(LAMBDA exp :
    Strict(LAMBDA pw :
      [panic |-> checks /\ (exp.o \/ pw.o),
       amount |-> pw.v, resource_type |-> r.cost.resource_type],
      U64Pow(r.cost.amount, exp.v)),
    U32Add(U64AsU32(r.level), N1))

(***************************************************************************)
(* Progression engine                                                      *)
(***************************************************************************)
F100 == FLit(100, 1)

\* Accrual with levels counted from one: a resource nobody upgraded accrues
AccrualFromLevelOne(r) ==
  FDiv(FMul(FFromU64(NAdd(r.level, N1)), r.progress_per_tick), F100)

\* what one tick adds to progress: `level as f64 * progress_per_tick / 100.0`
Accrual(r) == FDiv(FMul(FFromU64(r.level), r.progress_per_tick), F100)

\* `progress.floor() as u64`
WholePart(p) == FToU64(FFloor(p))

\* Credit that drops the whole part
CreditDropped(amount, whole_part) == U64Add(amount, N0)

\* `amount += whole_part`
Credit(amount, whole_part) == U64Add(amount, whole_part)

\* Remainder without the fract(): the whole part stays in progress
RemainderWithWhole(p) == p

\* `progress = progress.fract()`
Remainder(p) == FFract(p)

\* the body of tick's loop for one resource
TickResource(r, checks) ==
  Strict(LAMBDA p1 :
    Strict(LAMBDA sum :
      [panic |-> checks /\ sum.o,
       r |-> [r EXCEPT !.progress = Remainder(p1), !.amount = sum.v]],
      Credit(r.amount, WholePart(p1))),
    FAdd(r.progress, Accrual(r)))

\* tick that panics whatever the resources hold
TickPanics(rs, checks) == [panic |-> TRUE, resources |-> rs]

\* App::tick: every resource in order; a panic ends the process
tick(rs, checks) ==
  Strict(LAMBDA t :
    [panic |-> \E i \in 1..Len(rs) : t[i].panic,
     resources |-> [i \in 1..Len(rs) |-> t[i].r]],
    [i \in 1..Len(rs) |-> TickResource(rs[i], checks)])

\* tick applied n times in a row, as the loop of load does (n = a + b
\* ticks are a ticks, then b); a panic ends it
RECURSIVE TickTimes(_, _, _)
TickTimes(rs, n, checks) ==
  IF n = 0 THEN [panic |-> FALSE, resources |-> rs]
  ELSE IF n = 1 THEN tick(rs, checks)
  ELSE Strict(LAMBDA h : IF h.panic THEN h
                         ELSE TickTimes(h.resources, n - n \div 2, checks),
              TickTimes(rs, n \div 2, checks))


(***************************************************************************)
(* Selection cursor (tui_widget_list::ListState, as the event loop uses    *)
(* it).  An Option is a sequence: <<>> is None, <<i>> is Some(i).           *)
(***************************************************************************)
None == <<>>
Some(i) == <<i>>

\* ListState::next over n rows: the row after the selected one, the first
\* row with no selection; past the last row it wraps (infinite scrolling)
\* or stays
ListNext(sel, n, infinite) ==
  IF n = 0 THEN sel
  ELSE IF sel = None THEN Some(0)
  ELSE IF sel[1] >= n - 1 THEN (IF infinite THEN Some(0) ELSE sel)
  ELSE Some(sel[1] + 1)

\* ListState::previous
ListPrevious(sel, n, infinite) ==
  IF n = 0 THEN sel
  ELSE IF sel = None THEN Some(0)
  ELSE IF sel[1] = 0 THEN (IF infinite THEN Some(n - 1) ELSE sel)
  ELSE Some(sel[1] - 1)

(***************************************************************************)
(* Upgrade resolver                                                        *)
(***************************************************************************)
\* .iter_mut().find(|x| x.resource_type == cost.resource_type): the place
\* of the first resource of the cost's kind, 0 when there is none
FindCostResource(rs, resource_type) ==
  LET found == {j \in 1..Len(rs) : rs[j].resource_type = resource_type}
  IN  IF found = {} THEN 0
      ELSE CHOOSE j \in found : \A k \in found : j <= k

\* InsufficientFunds with `<=` for `<`: the exact price is turned down
InsufficientFundsOrEqual(cost_resource, cost) ==
  NLe(cost_resource.amount, cost.amount)

\* InsufficientFunds off by one: one unit short still buys
InsufficientFundsOffByOne(cost_resource, cost) ==
  NLt(NAdd(cost_resource.amount, N1), cost.amount)

\* InsufficientFunds without the comparison: the debit is never refused
FundsNeverChecked(cost_resource, cost) == FALSE

\* the guard of the debit: `if cost_resource.amount < cost.amount { return; }`
InsufficientFunds(cost_resource, cost) ==
  NLt(cost_resource.amount, cost.amount)

\* `cost_resource.amount -= cost.amount`
Debit(amount, cost_amount) == U64Sub(amount, cost_amount)

\* LevelUp by two levels at once
LevelUpTwice(level) == U64Add(level, NFromInt(2))

\* `self.game_state.resources[index].level += 1`
LevelUp(level) == U64Add(level, N1)

\* Unchanged, but with the selection dropped
UnchangedAndDeselected(rs, sel, outcome) ==
  [panic |-> FALSE, resources |-> rs, selected |-> <<>>, outcome |-> outcome]

\* the result of a call that left everything as it was
Unchanged(rs, sel, outcome) ==
  [panic |-> FALSE, resources |-> rs, selected |-> sel, outcome |-> outcome]

Panicked(rs, sel) ==
  [panic |-> TRUE, resources |-> rs, selected |-> sel, outcome |-> "Panic"]

\* the part of upgrade_resource after the cost resource j was found
UpgradePaid(rs, sel, t, j, cost, checks) ==
  IF InsufficientFunds(rs[j], cost) THEN Unchanged(rs, sel, "InsufficientFunds")
  ELSE Strict(LAMBDA paid :
         Strict(LAMBDA level :
           IF checks /\ (paid.o \/ level.o) THEN Panicked(rs, sel)
           ELSE [panic |-> FALSE, selected |-> sel, outcome |-> "Applied",
                 resources |-> [rs EXCEPT ![j].amount = paid.v,
                                          ![t].level = level.v]],
           LevelUp(rs[t].level)),
         Debit(rs[j].amount, cost.amount))

\* App::upgrade_resource(index) on the resources rs and the cursor sel
upgrade_resource(rs, sel, index, infinite, checks) ==
  IF index = None
  THEN [panic |-> FALSE, resources |-> rs, outcome |-> "NoSelection",
        selected |-> ListNext(sel, Len(rs), infinite)]
  ELSE IF index[1] >= Len(rs) THEN Panicked(rs, sel)
  ELSE Strict(LAMBDA cost :
         Strict(LAMBDA j :
           IF cost.panic THEN Panicked(rs, sel)
           ELSE IF j = 0 THEN Unchanged(rs, sel, "NoCostResource")
           ELSE UpgradePaid(rs, sel, index[1] + 1, j, cost, checks),
           FindCostResource(rs, cost.resource_type)),
         upgrade_cost(rs[index[1] + 1], checks))

(***************************************************************************)
(* Input: key presses and the intents they are mapped to                   *)
(***************************************************************************)
Key(code, modifiers) == [code |-> code, modifiers |-> modifiers]

\* handle_key_event: the AppEvent sent for a key press, None for no event
KeyIntent(key) ==
  IF key.code \in {"Esc", "q"} THEN Some("Quit")
  ELSE IF key.code \in {"c", "C"} /\ key.modifiers = {"CONTROL"} THEN Some("Quit")
  ELSE IF key.code = "Down" THEN Some("GoDown")
  ELSE IF key.code = "Up" THEN Some("GoUp")
  ELSE IF key.code = "Enter" THEN Some("Upgrade")
  ELSE None

TickEvent == [kind |-> "Tick"]
KeyEvent(key) == [kind |-> "Key", key |-> key]
OtherEvent == [kind |-> "Other"]
AppEvent(e) == [kind |-> "App", event |-> e]

(***************************************************************************)
(* JSON numbers (serde_json::to_writer_pretty and from_reader in app.rs).   *)
(* A number in save.json is decimal text.  A u64 is written as its digits  *)
(* and read back digit by digit.  An f64 is written by ryu as the shortest *)
(* decimal that reads back as the same f64, and the parser reads a decimal *)
(* as the integer its digits spell (the significand) and the power of ten  *)
(* that scales it: "0.125" is 125 and -3.                                  *)
(***************************************************************************)
\* itoa: the decimal digits of a u64, the most significant first
RECURSIVE itoa(_)
itoa(n) ==
  IF Len(n) <= 1 /\ NToInt(n) < 10 THEN <<NToInt(n)>>
  ELSE Strict(LAMBDA qr : Append(itoa(qr[1]), qr[2]), NDivModSmall(n, 10))

\* Deserializer::parse_integer: significand = significand * 10 + digit
RECURSIVE parse_integer(_, _)
parse_integer(digits, significand) ==
  IF digits = <<>> THEN significand
  ELSE parse_integer(Tail(digits),
                     NAdd(NMulSmall(significand, 10), NFromInt(Head(digits))))

\* POW10[k], the f64 literal 1e<k>
POW10(k) == FRound(NPow(NFromInt(10), k), 0)

\* Deserializer::f64_from_parts of serde_json as built by default:
\* `let mut f = significand as f64;` then `f *= pow` or `f /= pow`
f64_from_parts(significand, exponent) ==
  IF exponent >= 0 THEN FMul(FFromU64(significand), POW10(exponent))
  ELSE FDiv(FFromU64(significand), POW10(-exponent))

\* Deserializer::f64_long_from_parts of serde_json built with the feature
\* float_roundtrip: the f64 nearest to the decimal
f64_long_from_parts(significand, exponent) ==
  IF exponent >= 0
  THEN FRound(NMul(significand, NPow(NFromInt(10), exponent)), 0)
  ELSE FRat(significand, NPow(NFromInt(10), -exponent), 0)

\* floor(log10(x)) for the f64 x > 0: a value of b bits has
\* floor((b - 1) * log10(2)) or one more digits before the point
Log10Floor(x) ==
  Strict(LAMBDA g :
    IF (IF g + 1 >= 0
        THEN FCmp(x, FRound(NPow(NFromInt(10), g + 1), 0)) # -1
        ELSE NLe(NShl(N1, IF x.e < 0 THEN -x.e ELSE 0),
                 NMul(NShl(x.m, IF x.e > 0 THEN x.e ELSE 0),
                      NPow(NFromInt(10), -(g + 1)))))
    THEN g + 1 ELSE g,
    ((NBitLen(x.m) + x.e - 1) * 30103 + 100000 * 2000) \div 100000 - 2000)

\* x / 10^t as <<numerator, denominator>>
Scaled(x, t) ==
  << NMul(NShl(x.m, IF x.e > 0 THEN x.e ELSE 0),
          NPow(NFromInt(10), IF t < 0 THEN -t ELSE 0)),
     NMul(NShl(N1, IF x.e < 0 THEN -x.e ELSE 0),
          NPow(NFromInt(10), IF t > 0 THEN t ELSE 0)) >>

\* the multiple of 10^t nearest to x among those that read back as x (the
\* one below x or the one above it; even on a tie), and whether there is one
Nearest(x, t) ==
  Strict(LAMBDA nd :
    Strict(LAMBDA qr :
      Strict(LAMBDA below :
        Strict(LAMBDA above :
          [ok |-> below \/ above,
           significand |->
             IF above /\ (~below
                          \/ NCmp(NMulSmall(qr[2], 2), nd[2]) = 1
                          \/ (NCmp(NMulSmall(qr[2], 2), nd[2]) = 0
                              /\ NBit(qr[1], 0) = 1))
             THEN NAdd(qr[1], N1) ELSE qr[1],
           exponent |-> t],
          qr[2] # N0 /\ f64_long_from_parts(NAdd(qr[1], N1), t) = x),
        f64_long_from_parts(qr[1], t) = x),
      NDivMod(nd[1], nd[2])),
    Scaled(x, t))

\* the shortest decimal that reads back as the f64 x > 0: the least number
\* of digits n in lo..hi for which Nearest finds one (17 always do), with
\* g = floor(log10(x))
RECURSIVE Shortest(_, _, _, _)
Shortest(x, g, lo, hi) ==
  IF lo = hi THEN Nearest(x, g - lo + 1)
  ELSE IF Nearest(x, g - (lo + hi) \div 2 + 1).ok
       THEN Shortest(x, g, lo, (lo + hi) \div 2)
       ELSE Shortest(x, g, (lo + hi) \div 2 + 1, hi)

\* a decimal without the zeros its significand ends in
RECURSIVE StripZeros(_)
StripZeros(d) ==
  Strict(LAMBDA qr :
    IF qr[2] # 0 THEN [significand |-> d.significand, exponent |-> d.exponent]
    ELSE StripZeros([significand |-> qr[1], exponent |-> d.exponent + 1]),
    NDivModSmall(d.significand, 10))

\* ryu::Buffer::format_finite, as the parser reads its text: a value with
\* no fraction is written with ".0", one more digit (values below 10^16)
ryu(x) ==
  IF x.m = <<>> THEN [significand |-> N0, exponent |-> -1]
  ELSE Strict(LAMBDA d :
         IF d.exponent < 0 THEN d
         ELSE [significand |->
                 NMul(d.significand, NPow(NFromInt(10), d.exponent + 1)),
               exponent |-> -1],
         StripZeros(Shortest(x, Log10Floor(x), 1, 17)))

parse_decimal(d, float_roundtrip) ==
  IF float_roundtrip THEN f64_long_from_parts(d.significand, d.exponent)
  ELSE f64_from_parts(d.significand, d.exponent)

(***************************************************************************)
(* Persistence: save.json is absent (<<>>) or holds a content and an age   *)
(* (the time since it was last modified, or a modification time that lies  *)
(* in the future).  A content is unreadable, or the game a save wrote.     *)
(***************************************************************************)
NoFile == <<>>
Corrupt == [ok |-> FALSE]

\* serde_json::to_writer_pretty(save_file, &self.game_state): the resources
\* in order, every number as its text
to_json(rs) ==
  [i \in 1..Len(rs) |->
     [resource_type |-> rs[i].resource_type,
      amount |-> itoa(rs[i].amount),
      level |-> itoa(rs[i].level),
      cost |-> [amount |-> itoa(rs[i].cost.amount),
                resource_type |-> rs[i].cost.resource_type],
      progress |-> ryu(rs[i].progress),
      progress_per_tick |-> ryu(rs[i].progress_per_tick)]]

\* serde_json::from_reader(file): every number parsed from its text
from_json(js, float_roundtrip) ==
  [i \in 1..Len(js) |->
     [resource_type |-> js[i].resource_type,
      amount |-> parse_integer(js[i].amount, N0),
      level |-> parse_integer(js[i].level, N0),
      cost |-> [amount |-> parse_integer(js[i].cost.amount, N0),
                resource_type |-> js[i].cost.resource_type],
      progress |-> parse_decimal(js[i].progress, float_roundtrip),
      progress_per_tick |->
        parse_decimal(js[i].progress_per_tick, float_roundtrip)]]

\* a save.json that save wrote in full: its text is to_json(game), and
\* reading it parses that text
Saved(rs) == [ok |-> TRUE, game |-> rs]

read_json(content, float_roundtrip) ==
  from_json(to_json(content.game), float_roundtrip)
Age(secs, nanos) == [future |-> FALSE, secs |-> secs, nanos |-> nanos]
Future == [future |-> TRUE]
File(content, age) == <<[content |-> content, age |-> age]>>

\* the events per second of the tick source
TICK_FPS == FLit(10, 1)

NANOS_PER_SEC == FLit(1000000000, 1)

\* Duration::as_secs_f64
as_secs_f64(age) ==
  FAdd(FFromU64(NFromInt(age.secs)),
       FDiv(FFromU64(NFromInt(age.nanos)), NANOS_PER_SEC))

\* offline_ticks with round() for floor(): half a tick counts as one
offline_ticks_rounded(age) ==
  FToU64(FFloor(FAdd(FMul(as_secs_f64(age), TICK_FPS), FLit(1, 2))))

\* `(offline_secs * TICK_FPS).floor() as u64`
offline_ticks(age) == FToU64(FFloor(FMul(as_secs_f64(age), TICK_FPS)))

\* load that never opens the file: any save.json is as good as none
LoadIgnoresFile(rs, f, float_roundtrip, checks) ==
  [result |-> "Ok", resources |-> rs, ticks |-> 0]

\* App::load on the file f: what run goes on with.  float_roundtrip is how
\* the build's serde_json parses an f64.
load(rs, f, float_roundtrip, checks) ==
  IF f = NoFile THEN [result |-> "Ok", resources |-> rs, ticks |-> 0]
  ELSE IF ~f[1].content.ok THEN [result |-> "Err", resources |-> rs, ticks |-> 0]
  ELSE IF f[1].age.future
       THEN [result |-> "Err", ticks |-> 0,
             resources |-> read_json(f[1].content, float_roundtrip)]
  ELSE Strict(LAMBDA n :
         Strict(LAMBDA t :
           [result |-> IF t.panic THEN "Panic" ELSE "Ok",
            resources |-> t.resources, ticks |-> n],
           TickTimes(read_json(f[1].content, float_roundtrip), n, checks)),
         NToInt(offline_ticks(f[1].age)))


(***************************************************************************)
(* The running application                                                 *)
(***************************************************************************)
VARIABLES
  pc,                  \* where the program is: in run, "load", "loop",
                       \* "stopped" (returned Ok), "failed" (returned Err),
                       \* "panicked"; "call" while operations are called
                       \* one by one
  running,             \* App.running
  resources,           \* App.game_state.resources
  selected,            \* App.list_state.selected
  queue,               \* the events sent to App.events and not yet received
  save_file,           \* save.json
  overflow_checks,     \* whether the build checks integer overflow
  infinite_scrolling,  \* whether the list wraps at its ends
  last,                \* what the last operation did
  nticks,              \* tick events sent, or ticks called, so far
  nkeys                \* input events sent, or other operations called

vars == <<pc, running, resources, selected, queue, save_file, overflow_checks,
          infinite_scrolling, last, nticks, nkeys>>

\* bounds of the model
MaxTicks == 2
MaxKeys == 3
MaxQueue == 2
MaxCalls == 2
MaxWait == 410

Did(op, key, index, n, outcome) ==
  [op |-> op, key |-> key, index |-> index, n |-> n, outcome |-> outcome]

\* the game as Wood's first upgrade leaves it: two Enter presses from the
\* default roster (the first selects Wood, the second buys level 1 for 2 Wood)
WoodUpgraded ==
  [DefaultResources EXCEPT ![1].amount = N0, ![1].level = N1]

\* the game n ticks after Wood's first upgrade
Played(n) == TickTimes(WoodUpgraded, n, FALSE).resources

\* the save.json a run may find: none, an unreadable one, or what an earlier
\* run saved, modified in the future or 0.05 s, 9.9 s or 10 s ago
Ages == {Future, Age(0, 50000000), Age(9, 900000000), Age(10, 0)}

SaveFiles ==
  {NoFile, File(Corrupt, Age(0, 0))}
    \cup {File(Saved(rs), a) : rs \in {WoodUpgraded, Played(300)}, a \in Ages}

\* the keys pressed
Keys ==
  {Key("Esc", {}), Key("q", {}), Key("Q", {"SHIFT"}), Key("c", {"CONTROL"}),
   Key("C", {"CONTROL", "SHIFT"}), Key("Down", {}), Key("Up", {}),
   Key("Enter", {})}

\* App::new(), and the environment run starts in
Init ==
  /\ pc = "load"
  /\ running = TRUE
  /\ resources = DefaultResources
  /\ selected = None
  /\ queue = <<>>
  /\ save_file \in SaveFiles
  /\ overflow_checks \in BOOLEAN
  /\ infinite_scrolling \in BOOLEAN
  /\ last = Did("new", None, None, 0, "Ok")
  /\ nticks = 0
  /\ nkeys = 0

\* run: self.load()?  The f64 parser is the one serde_json was built with
\* (Cargo's features choose it)
Load ==
  /\ pc = "load"
  /\ \E l \in {load(resources, save_file, fr, overflow_checks) :
                 fr \in BOOLEAN} :
       /\ pc' = CASE l.result = "Ok" -> "loop"
                  [] l.result = "Err" -> "failed"
                  [] OTHER -> "panicked"
       /\ resources' = IF l.result = "Panic" THEN resources ELSE l.resources
       /\ last' = Did("load", None, None, l.ticks, l.result)
  /\ UNCHANGED <<running, selected, queue, save_file, overflow_checks,
                 infinite_scrolling, nticks, nkeys>>

\* the event thread sends a tick (one sent while load runs is received
\* after it, like one sent right after it)
TimerTick ==
  /\ pc = "loop"
  /\ nticks < MaxTicks
  /\ Len(queue) < MaxQueue
  /\ queue' = Append(queue, TickEvent)
  /\ nticks' = nticks + 1
  /\ UNCHANGED <<pc, running, resources, selected, save_file, overflow_checks,
                 infinite_scrolling, last, nkeys>>

\* the event thread sends a terminal event: a key press or another one
Input(e) ==
  /\ pc = "loop"
  /\ nkeys < MaxKeys
  /\ Len(queue) < MaxQueue
  /\ queue' = Append(queue, e)
  /\ nkeys' = nkeys + 1
  /\ UNCHANGED <<pc, running, resources, selected, save_file, overflow_checks,
                 infinite_scrolling, last, nticks>>

KeyPress == \E k \in Keys : Input(KeyEvent(k))

OtherInput == Input(OtherEvent)

\* self.tick(): a panic ends the process
DoTick ==
  /\ \E t \in {tick(resources, overflow_checks)} :
       /\ pc' = IF t.panic THEN "panicked" ELSE pc
       /\ resources' = IF t.panic THEN resources ELSE t.resources
       /\ last' = Did("tick", None, None, 1, IF t.panic THEN "Panic" ELSE "Ok")
  /\ UNCHANGED <<running, selected, save_file>>

\* DoMove that steps on whatever the length of the list
DoMoveUnchecked(event) ==
  /\ selected' = IF selected = None THEN Some(0)
                 ELSE IF event = "GoDown" THEN Some(selected[1] + 1)
                 ELSE Some(selected[1] - 1)
  /\ last' = Did(event, None, selected, 0, "Ok")
  /\ UNCHANGED <<pc, running, resources, save_file>>

\* self.list_state.borrow_mut().next() / .previous()
DoMove(event) ==
  /\ selected' = IF event = "GoDown"
                 THEN ListNext(selected, Len(resources), infinite_scrolling)
                 ELSE ListPrevious(selected, Len(resources), infinite_scrolling)
  /\ last' = Did(event, None, selected, 0, "Ok")
  /\ UNCHANGED <<pc, running, resources, save_file>>

\* self.upgrade_resource(self.list_state.borrow().selected)
DoUpgrade ==
  /\ \E u \in {upgrade_resource(resources, selected, selected,
                                infinite_scrolling, overflow_checks)} :
       /\ pc' = IF u.panic THEN "panicked" ELSE pc
       /\ resources' = u.resources
       /\ selected' = u.selected
       /\ last' = Did("upgrade", None, selected, 0, u.outcome)
  /\ UNCHANGED <<running, save_file>>

\* handle_events: Event::Tick => self.tick()
HandleTick ==
  /\ Head(queue) = TickEvent
  /\ DoTick

\* handle_events: Event::Crossterm(event); a key goes to handle_key_event,
\* which sends the intent, anything else is dropped
HandleCrossterm ==
  /\ Head(queue).kind \in {"Key", "Other"}
  /\ last' = IF Head(queue).kind = "Key"
             THEN Did("key", Some(Head(queue).key), None, 0,
                      IF KeyIntent(Head(queue).key) = None THEN "None"
                      ELSE KeyIntent(Head(queue).key)[1])
             ELSE Did("other", None, None, 0, "None")
  /\ UNCHANGED <<pc, running, resources, selected, save_file>>

\* Sent with every intent sent twice
SentTwice ==
  IF Head(queue).kind = "Key" /\ KeyIntent(Head(queue).key) # None
  THEN <<AppEvent(KeyIntent(Head(queue).key)[1]),
         AppEvent(KeyIntent(Head(queue).key)[1])>>
  ELSE <<>>

\* what handle_key_event sends while the event at the head is handled
Sent ==
  IF Head(queue).kind = "Key" /\ KeyIntent(Head(queue).key) # None
  THEN <<AppEvent(KeyIntent(Head(queue).key)[1])>>
  ELSE <<>>

\* handle_events: AppEvent::GoDown / AppEvent::GoUp
HandleMove ==
  /\ Head(queue).kind = "App"
  /\ Head(queue).event \in {"GoDown", "GoUp"}
  /\ DoMove(Head(queue).event)

\* handle_events: AppEvent::Upgrade
HandleUpgrade ==
  /\ Head(queue) = AppEvent("Upgrade")
  /\ DoUpgrade

\* App::save: File::create, then the state is written; either can fail, and
\* a failed write leaves the file created and incomplete
SaveOutcomes == {"Ok", "CreateFailed", "WriteFailed"}

\* save that reports its outcome and leaves the file alone
SaveSkipped(rs, f, outcome) == f

save(rs, f, outcome) ==
  CASE outcome = "Ok" -> File(Saved(rs), Age(0, 0))
    [] outcome = "CreateFailed" -> f
    [] OTHER -> File(Corrupt, Age(0, 0))

\* handle_events: AppEvent::Quit => self.quit()?, and the loop's test of
\* self.running after it
HandleQuit ==
  /\ Head(queue) = AppEvent("Quit")
  /\ \E outcome \in SaveOutcomes :
       /\ save_file' = save(resources, save_file, outcome)
       /\ running' = (outcome # "Ok")
       /\ pc' = IF outcome = "Ok" THEN "stopped" ELSE "failed"
       /\ last' = Did("quit", None, None, 0, outcome)
  /\ UNCHANGED <<resources, selected>>

\* one pass of run's loop: the next event is received and handled
HandleEvents ==
  /\ pc = "loop"
  /\ running
  /\ queue # <<>>
  /\ queue' = Tail(queue) \o Sent
  /\ \/ HandleTick
     \/ HandleCrossterm
     \/ HandleMove
     \/ HandleUpgrade
     \/ HandleQuit
  /\ UNCHANGED <<overflow_checks, infinite_scrolling, nticks, nkeys>>

Next == Load \/ TimerTick \/ KeyPress \/ OtherInput \/ HandleEvents

Spec == Init /\ [][Next]_vars

(***************************************************************************)
(* The operations of App called one by one on a game state, as a test of   *)
(* the crate calls them: tick, upgrade_resource, the cursor moves, save    *)
(* and load, in any order, MaxCalls times                                  *)
(***************************************************************************)
\* Wood at level `level` holding `amount`, the rest of the roster as new
WoodAt(level, amount) ==
  [DefaultResources EXCEPT ![1].amount = amount, ![1].level = level]

\* the game states the calls start from: the default roster; Wood's first
\* upgrade; that game 99, 300 and 400 ticks on (a whole unit due at the next
\* tick; 3 Wood, Stone's price and one short of Wood's; 4 Wood, Wood's price);
\* and two a save file can hold, all the Wood a u64 counts at level 62 (the
\* last whose price fits in a u64) and at level 100 (a unit of Wood a tick)
Rosters ==
  {DefaultResources, WoodUpgraded, Played(99), Played(300), Played(400),
   WoodAt(NFromInt(62), U64Max), WoodAt(NFromInt(100), U64Max)}

Cursors == {None} \cup {Some(i) : i \in 0..(Len(DefaultResources) - 1)}

InitFn ==
  /\ pc = "call"
  /\ running = TRUE
  /\ resources \in Rosters
  /\ selected \in Cursors
  /\ queue = <<>>
  /\ save_file = NoFile
  /\ overflow_checks \in BOOLEAN
  /\ infinite_scrolling \in BOOLEAN
  /\ last = Did("new", None, None, 0, "Ok")
  /\ nticks = 0
  /\ nkeys = 0

\* a call is made while the process lives
Callable == pc = "call" /\ nticks + nkeys < MaxCalls

CallTick ==
  /\ Callable
  /\ DoTick
  /\ nticks' = nticks + 1
  /\ UNCHANGED <<queue, overflow_checks, infinite_scrolling, nkeys>>

CallUpgrade ==
  /\ Callable
  /\ DoUpgrade
  /\ nkeys' = nkeys + 1
  /\ UNCHANGED <<queue, overflow_checks, infinite_scrolling, nticks>>

CallMove ==
  /\ Callable
  /\ \E event \in {"GoDown", "GoUp"} : DoMove(event)
  /\ nkeys' = nkeys + 1
  /\ UNCHANGED <<queue, overflow_checks, infinite_scrolling, nticks>>

\* self.save()
CallSave ==
  /\ Callable
  /\ \E outcome \in SaveOutcomes :
       /\ save_file' = save(resources, save_file, outcome)
       /\ last' = Did("save", None, None, 0, outcome)
  /\ nkeys' = nkeys + 1
  /\ UNCHANGED <<pc, running, resources, selected, queue, overflow_checks,
                 infinite_scrolling, nticks>>

\* self.load(), at once: a file just saved is modified no time ago
CallLoad ==
  /\ Callable
  /\ \E l \in {load(resources, save_file, fr, overflow_checks) :
                 fr \in BOOLEAN} :
       /\ pc' = IF l.result = "Panic" THEN "panicked" ELSE pc
       /\ resources' = IF l.result = "Panic" THEN resources ELSE l.resources
       /\ last' = Did("load", None, None, l.ticks, l.result)
  /\ nkeys' = nkeys + 1
  /\ UNCHANGED <<running, selected, queue, save_file, overflow_checks,
                 infinite_scrolling, nticks>>

NextFn == CallTick \/ CallUpgrade \/ CallMove \/ CallSave \/ CallLoad

SpecFn == InitFn /\ [][NextFn]_vars

(***************************************************************************)
(* A game played from the default roster, taken up at points along it: the *)
(* operations are called one by one as above, from the roster as new and   *)
(* from what the same game holds later, each point computed from the one   *)
(* before it by tick and upgrade_resource                                  *)
(***************************************************************************)
\* the roster after upgrade_resource(Some(index)) on rs
Bought(rs, index) ==
  upgrade_resource(rs, Some(index), Some(index), FALSE, FALSE).resources

\* Wood bought, then Stone 300 ticks later for the 3 Wood made, and the game
\* 810 ticks after that (4 Stone made, Iron's price)
StoneReady == TickTimes(Bought(Played(300), 1), 810, FALSE).resources

\* Iron bought then, and the game 5010 ticks later (5 Iron made, Diamond's
\* price)
IronReady == TickTimes(Bought(StoneReady, 2), 5010, FALSE).resources

GamePoints ==
  {DefaultResources, Bought(DefaultResources, 0), Played(300), StoneReady,
   IronReady}

InitGame ==
  /\ pc = "call"
  /\ running = TRUE
  /\ resources \in GamePoints
  /\ selected \in Cursors
  /\ queue = <<>>
  /\ save_file = NoFile
  /\ overflow_checks \in BOOLEAN
  /\ infinite_scrolling \in BOOLEAN
  /\ last = Did("new", None, None, 0, "Ok")
  /\ nticks = 0
  /\ nkeys = 0

NextGame == CallTick \/ CallUpgrade \/ CallMove

SpecGame == InitGame /\ [][NextGame]_vars

(***************************************************************************)
(* The player waits: run finds a saved game, and from then on only ticks   *)
(* arrive, MaxWait of them.  The event thread sends a tick every 1/TICK_FPS *)
(* seconds and run's loop receives whatever is queued, so both are weakly  *)
(* fair                                                                    *)
(***************************************************************************)
\* Wood and Stone bought, 510 ticks after Stone: 5 Wood, 2 Stone
StoneBought == TickTimes(Bought(Played(300), 1), 510, FALSE).resources

\* the games waited in: the default roster (no file), Wood just bought, and
\* Wood and Stone bought
WaitFiles ==
  {NoFile}
    \cup {File(Saved(rs), Age(0, 50000000)) : rs \in {WoodUpgraded, StoneBought}}

InitWait ==
  /\ pc = "load"
  /\ running = TRUE
  /\ resources = DefaultResources
  /\ selected = None
  /\ queue = <<>>
  /\ save_file \in WaitFiles
  /\ overflow_checks \in BOOLEAN
  /\ infinite_scrolling \in BOOLEAN
  /\ last = Did("new", None, None, 0, "Ok")
  /\ nticks = 0
  /\ nkeys = 0

\* the event thread sends a tick
WaitTick ==
  /\ pc = "loop"
  /\ nticks < MaxWait
  /\ Len(queue) < MaxQueue
  /\ queue' = Append(queue, TickEvent)
  /\ nticks' = nticks + 1
  /\ UNCHANGED <<pc, running, resources, selected, save_file, overflow_checks,
                 infinite_scrolling, last, nkeys>>

NextWait == Load \/ WaitTick \/ HandleEvents

\* ENABLED <<HandleEvents>>_vars: the loop runs and an event is queued (every
\* event has its handler, and handling it changes the queue)
Receivable == pc = "loop" /\ running /\ queue # <<>>

\* weak fairness of HandleEvents, WF_vars(HandleEvents), written out with
\* Receivable for its ENABLED
LoopRuns == []<>(~Receivable) \/ []<><<HandleEvents>>_vars

SpecWait == InitWait /\ [][NextWait]_vars /\ WF_vars(WaitTick) /\ LoopRuns

(***************************************************************************)
(* Properties                                                              *)
(***************************************************************************)
\* a step of run that receives the event e and handles it
Handles(e) ==
  /\ pc = "loop"
  /\ queue # <<>>
  /\ Head(queue) = e
  /\ queue' = Tail(queue) \o Sent

\* a step that calls the operation op
Calls(op) ==
  /\ pc = "call"
  /\ nticks' + nkeys' = nticks + nkeys + 1
  /\ last'.op = op

\* the row the cursor sel is on
Target(sel) == sel[1] + 1

\* the price upgrade_resource asks for that row
Price(sel) == upgrade_cost(resources[Target(sel)], overflow_checks)

\* the row that pays it, 0 when there is none
Payer(sel) == FindCostResource(resources, Price(sel).resource_type)

FOne == FLit(1, 1)

\* the game save.json holds, as a build's parser (float_roundtrip or not)
\* reads it
FileGame(float_roundtrip) == read_json(save_file[1].content, float_roundtrip)

\* C1: whenever upgrade_resource is called on a selected row whose price
\* the paying resource can afford (the exact price included), the call is
\* applied: exactly the price leaves the payer's amount, the target's level
\* rises by exactly 1, and nothing else of any resource, nor the cursor or
\* the running flag, changes -- also when the payer is the target itself
C1_UpgradeApplied ==
  [][(Calls("upgrade") /\ selected # None) =>
       LET t    == Target(selected)
           cost == Price(selected)
           j    == Payer(selected)
       IN  (~cost.panic /\ j # 0 /\ NLe(cost.amount, resources[j].amount))
             => /\ last'.outcome = "Applied"
                /\ pc' = pc
                /\ resources' =
                     [resources EXCEPT ![j].amount = NSub(@, cost.amount),
                                       ![t].level = NAdd(@, N1)]
                /\ UNCHANGED <<selected, running>>]_vars

\* C1 witness: Wood, priced in Wood, bought from the default roster with
\* the 2 Wood it holds: amount 2 -> 0, level 0 -> 1
C1_WoodBoughtWithAllItsWood ==
  /\ pc = "call"
  /\ last.op = "upgrade" /\ last.outcome = "Applied" /\ last.index = Some(0)
  /\ resources = WoodUpgraded

\* C2: whenever upgrade_resource is called on a selected row whose price is
\* more than the paying resource holds, the call reports insufficient funds
\* and resources, cursor, running flag and save file are what they were
C2_InsufficientFundsIsNoOp ==
  [][(Calls("upgrade") /\ selected # None) =>
       LET cost == Price(selected)
           j    == Payer(selected)
       IN  (~cost.panic /\ j # 0 /\ NLt(resources[j].amount, cost.amount))
             => /\ last'.outcome = "InsufficientFunds"
                /\ UNCHANGED <<resources, selected, running, pc, save_file>>]_vars

\* C2 witness: Wood was upgraded once from the default roster, and a second
\* upgrade of Wood (price 4, amount 0) was refused
C2_SecondWoodUpgradeRefused ==
  /\ pc = "call"
  /\ last.op = "upgrade" /\ last.outcome = "InsufficientFunds"
  /\ last.index = Some(0)
  /\ resources = WoodUpgraded
  /\ nkeys = 2

\* C3: a tick leaves the amount and the progress of every resource at level
\* 0 as they were (so any number of ticks in a row does)
C3_IdleResourceUntouched ==
  [][Calls("tick") =>
       \A i \in 1..Len(resources) :
         resources[i].level = N0 =>
           /\ resources'[i].amount = resources[i].amount
           /\ resources'[i].progress = resources[i].progress]_vars

\* C3 witness: two ticks in a row went over the default roster, whose Wood
\* holds 2 at level 0
C3_DefaultRosterTicked ==
  /\ pc = "call"
  /\ last.op = "tick" /\ last.outcome = "Ok"
  /\ nticks = 2
  /\ resources[1].level = N0 /\ resources[1].amount = NFromInt(2)

\* C4: once a tick has run, whatever upgrades and cursor moves come with it,
\* every resource's progress is at least 0 and less than 1
C4_ProgressIsAFraction ==
  nticks >= 1 =>
    \A i \in 1..Len(resources) :
      /\ FCmp(FZero, resources[i].progress) # 1
      /\ FLt(resources[i].progress, FOne)

\* C4 witness: a tick took progress past 1 (Wood at level 1, 99 ticks in):
\* the unit went to amount and a fraction stayed
C4_UnitCarriedIntoAmount ==
  /\ pc = "call"
  /\ last.op = "tick" /\ last.outcome = "Ok"
  /\ resources[1].level = N1 /\ resources[1].amount = N1
  /\ resources[1].progress # FZero
  /\ FLt(resources[1].progress, FOne)

\* n ticks of the resource r as one computation: the whole part of
\* progress + n * level * progress_per_tick / 100 goes to amount, the
\* fractional part stays in progress
TickedAtOnce(r, n) ==
  Strict(LAMBDA sum :
    [r EXCEPT !.amount = NAdd(@, WholePart(sum)), !.progress = FFract(sum)],
    FAdd(r.progress,
         FDiv(FMul(FMul(FFromU64(NFromInt(n)), FFromU64(r.level)),
                   r.progress_per_tick),
              F100)))

\* C5: the N ticks load replays leave every resource as one computation
\* over N does: amount up by floor(p + N * level * rate / 100), the
\* fractional part of that sum in progress (Wood at level 1 and progress 0:
\* after 100 ticks amount is up by 1 and progress is 0 again)
C5_TicksAddUp ==
  [][(pc = "load" /\ pc' = "loop" /\ save_file # NoFile) =>
       \E fr \in BOOLEAN :
         \A i \in 1..Len(resources') :
           resources'[i] = TickedAtOnce(FileGame(fr)[i], last'.n)]_vars

\* C6: an upgrade handled in a run from the default roster never panics,
\* never leaves a resource with more than it held (a debit that wrapped
\* would), and when it is applied the price was at most what the payer held
\* and exactly the price is gone
C6_DebitWithinFunds ==
  [][(Handles(AppEvent("Upgrade")) /\ selected # None) =>
       LET cost == Price(selected)
           j    == Payer(selected)
       IN  /\ last'.outcome # "Panic"
           /\ \A i \in 1..Len(resources) :
                NLe(resources'[i].amount, resources[i].amount)
           /\ last'.outcome = "Applied" =>
                /\ NLe(cost.amount, resources[j].amount)
                /\ resources'[j].amount =
                     NSub(resources[j].amount, cost.amount)]_vars

\* C6 witness: in a run, an upgrade took all the payer held (Stone bought
\* with the 3 Wood of a loaded game)
C6_AllWoodSpentOnStone ==
  /\ pc = "loop"
  /\ last.op = "upgrade" /\ last.outcome = "Applied" /\ last.index = Some(1)
  /\ resources[1].amount = N0
  /\ resources[2].level = N1

\* C7: for every resource, upgrade_cost is base^(level + 1) in the base
\* cost's kind, and with a base above 1 it is less than upgrade_cost one
\* level up, neither computation leaving the u64
C7_CostGrowsWithLevel ==
  \A i \in 1..Len(resources) :
    LET r  == resources[i]
        a  == upgrade_cost(r, overflow_checks)
        b  == upgrade_cost([r EXCEPT !.level = NAdd(@, N1)], overflow_checks)
    IN  /\ ~a.panic
        /\ a.amount = NPow(r.cost.amount, NToInt(r.level) + 1)
        /\ a.resource_type = r.cost.resource_type
        /\ NLt(N1, r.cost.amount) => (~b.panic /\ NLt(a.amount, b.amount))

\* C8: a tick never panics and leaves no resource with less than it held
C8_TickNeverLowersAmount ==
  [][Calls("tick") =>
       /\ last'.outcome # "Panic"
       /\ \A i \in 1..Len(resources) :
            NLe(resources[i].amount, resources'[i].amount)]_vars

\* C9: in the event loop a resource's level changes only in the step that
\* handles an Upgrade with the cursor on that resource and applies it, and
\* then it rises by exactly 1
C9_LevelOnlyRisesByUpgrade ==
  [][pc = "loop" =>
       \A i \in 1..Len(resources) :
         \/ resources'[i].level = resources[i].level
         \/ /\ Handles(AppEvent("Upgrade"))
            /\ selected = Some(i - 1)
            /\ last'.outcome = "Applied"
            /\ resources'[i].level = NAdd(resources[i].level, N1)]_vars

\* C9 witness: in a run, Wood went from level 1 to level 2
C9_WoodRaisedAgain ==
  /\ pc = "loop"
  /\ last.op = "upgrade" /\ last.outcome = "Applied" /\ last.index = Some(0)
  /\ resources[1].level = NFromInt(2)

Billion == NFromInt(1000000000)

\* the whole ticks in an age, counted in nanoseconds
ElapsedTicks(age) ==
  NToInt(NDivMod(NMul(NAdd(NMul(NFromInt(age.secs), Billion),
                           NFromInt(age.nanos)),
                      FToU64(TICK_FPS)),
                 Billion)[1])

\* C10: load of a readable save file modified in the past goes on to the
\* event loop with the file's game ticked floor(elapsed seconds * tick
\* rate) times, as tick itself would have
C10_LoadReplaysTicks ==
  [][(/\ pc = "load" /\ pc' # "load"
      /\ save_file # NoFile
      /\ save_file[1].content.ok
      /\ ~save_file[1].age.future) =>
       \E fr \in BOOLEAN :
         LET n == ElapsedTicks(save_file[1].age)
             t == TickTimes(FileGame(fr), n, overflow_checks)
         IN  /\ pc' = "loop"
             /\ last'.n = n
             /\ ~t.panic
             /\ resources' = t.resources]_vars

\* C10 witness: a save file 10 seconds old was loaded and 100 ticks replayed
C10_HundredTicksReplayed ==
  /\ pc = "loop"
  /\ last = Did("load", None, None, 100, "Ok")
  /\ resources # DefaultResources

\* C11: a load that comes right after a save which wrote the whole file
\* succeeds and leaves the game equal to the saved one in every field: the
\* roster's order, kinds, levels, amounts, progress, rates and base costs
C11_SaveLoadRoundTrip ==
  [][(/\ Calls("load")
      /\ save_file # NoFile
      /\ save_file[1].content = Saved(resources)
      /\ save_file[1].age = Age(0, 0)) =>
       /\ last'.outcome = "Ok"
       /\ resources' = resources]_vars

\* C12: handling Quit saves the current game and only then stops: when the
\* save succeeds save.json holds the game as it is and running is cleared;
\* when it fails running stays set and run returns the error.  running is
\* cleared by no other step, save.json is written by no other step, and
\* load runs only at the start of run, before any event is sent or handled.
C12_QuitSavesThenStops ==
  [][/\ Handles(AppEvent("Quit")) =>
          \/ /\ last'.outcome = "Ok"
             /\ save_file' = File(Saved(resources), Age(0, 0))
             /\ ~running' /\ pc' = "stopped"
          \/ /\ last'.outcome \in {"CreateFailed", "WriteFailed"}
             /\ running' /\ pc' = "failed"
     /\ (running /\ ~running') =>
          Handles(AppEvent("Quit")) /\ last'.outcome = "Ok"
     /\ save_file' # save_file => Handles(AppEvent("Quit"))
     /\ (last'.op = "load" /\ last' # last) =>
          pc = "load" /\ nticks = 0 /\ nkeys = 0 /\ queue = <<>>
     /\ UNCHANGED resources \/ ~Handles(AppEvent("Quit"))]_vars

\* C12 witness: a run that handled a tick stopped on Quit, and save.json
\* holds its game
C12_StoppedWithGameSaved ==
  /\ pc = "stopped" /\ ~running
  /\ last.op = "quit" /\ last.outcome = "Ok"
  /\ nticks >= 1
  /\ resources[1].level = N1
  /\ save_file = File(Saved(resources), Age(0, 0))

C14_KeyTable ==
  [][\A k \in Keys :
       Handles(KeyEvent(k)) =>
         /\ queue' = Tail(queue) \o
              (IF k.code \in {"Esc", "q", "Q"} THEN <<AppEvent("Quit")>>
               ELSE IF k.code \in {"c", "C"} /\ "CONTROL" \in k.modifiers
                    THEN <<AppEvent("Quit")>>
               ELSE IF k.code = "Down" THEN <<AppEvent("GoDown")>>
               ELSE IF k.code = "Up" THEN <<AppEvent("GoUp")>>
               ELSE IF k.code = "Enter" THEN <<AppEvent("Upgrade")>>
               ELSE <<>>)
         /\ UNCHANGED <<resources, selected, running>>]_vars

\* C15: handling Upgrade with nothing selected selects the first row and
\* leaves every resource as it was; with a row selected the cursor stays,
\* and the resources are either as they were or changed by the upgrade of
\* exactly that row (its price gone from the payer, its level up by one)
C15_UpgradeReadsCursor ==
  [][Handles(AppEvent("Upgrade")) =>
       IF selected = None
       THEN /\ selected' = Some(0)
            /\ UNCHANGED <<resources, running, save_file>>
       ELSE /\ selected' = selected
            /\ last'.index = selected
            /\ \/ UNCHANGED resources
               \/ /\ Payer(selected) # 0
                  /\ resources' =
                       [resources EXCEPT
                          ![Payer(selected)].amount =
                            NSub(@, Price(selected).amount),
                          ![Target(selected)].level = NAdd(@, N1)]]_vars

\* C15 witness: Upgrade was handled with nothing selected while Wood's
\* first level was affordable (2 Wood held): the cursor is on the first
\* row, and Wood is still at level 0 with its 2 Wood
C15_FirstRowSelectedNotBought ==
  /\ pc = "loop"
  /\ last.op = "upgrade" /\ last.outcome = "NoSelection"
  /\ selected = Some(0)
  /\ resources = DefaultResources

\* C16: load with no save.json succeeds and run enters the loop on the
\* default roster with no tick applied; load of a save.json that cannot be
\* parsed fails, and run ends there with the error: nothing was sent or
\* handled, save.json is as it was, and no step follows
C16_MissingIsFreshCorruptIsFatal ==
  [][/\ pc # "failed"
     /\ (pc = "load" /\ save_file = NoFile) =>
          /\ pc' = "loop" /\ running'
          /\ last'.op = "load" /\ last'.outcome = "Ok" /\ last'.n = 0
          /\ resources' = DefaultResources
          /\ save_file' = NoFile
     /\ (pc = "load" /\ save_file # NoFile /\ ~save_file[1].content.ok) =>
          /\ pc' = "failed"
          /\ last'.op = "load" /\ last'.outcome = "Err"
          /\ UNCHANGED <<save_file, queue, nticks, nkeys, selected>>]_vars

\* C16 witness: run ended in load on an unreadable save.json, which is
\* still there
C16_CorruptSaveRefused ==
  /\ pc = "failed"
  /\ last.op = "load" /\ last.outcome = "Err"
  /\ save_file = File(Corrupt, Age(0, 0))
  /\ queue = <<>>

\* C17: in every state of a run the cursor is absent or on a row of the
\* roster (0 <= index < number of resources), and no upgrade has failed on
\* its index
C17_CursorInRange ==
  /\ selected = None \/ selected[1] \in 0..(Len(resources) - 1)
  /\ ~(last.op = "upgrade" /\ last.outcome = "Panic")

\* C17 witness: GoUp was handled with the cursor on the first row of a
\* loaded roster, and the cursor is on that row or the last one
C17_UpAtFirstRow ==
  /\ pc = "loop"
  /\ last.op = "GoUp" /\ last.index = Some(0)
  /\ selected \in {Some(0), Some(Len(resources) - 1)}
  /\ resources # DefaultResources

\* the operation that handles the event e
Handler(e) ==
  CASE e.kind = "Tick" -> "tick"
    [] e.kind = "Key" -> "key"
    [] e.kind = "Other" -> "other"
    [] e.event = "Upgrade" -> "upgrade"
    [] e.event = "Quit" -> "quit"
    [] OTHER -> e.event

\* the queue changes only by a send at its end or by the handling of its
\* head: the head leaves, its handler and no other runs, once (a tick ticks
\* every resource once), and a key press with an intent puts that one
\* intent at the end; nothing else in the queue moves
OneAtATimeInOrder ==
  queue' # queue =>
       \/ /\ Len(queue') = Len(queue) + 1
          /\ SubSeq(queue', 1, Len(queue)) = queue
          /\ queue'[Len(queue')].kind \in {"Tick", "Key", "Other"}
          /\ UNCHANGED <<resources, selected, running, save_file, last>>
       \/ /\ queue # <<>>
          /\ queue' = Tail(queue) \o
               (IF Head(queue).kind = "Key"
                   /\ KeyIntent(Head(queue).key) # None
                THEN <<AppEvent(KeyIntent(Head(queue).key)[1])>>
                ELSE <<>>)
          /\ last'.op = Handler(Head(queue))
          /\ Head(queue) = TickEvent =>
               resources' = tick(resources, overflow_checks).resources
          /\ Head(queue) # TickEvent =>
               \A i \in 1..Len(resources) :
                 resources'[i].progress = resources[i].progress

\* C18: while the loop runs, events are handled one at a time and in the
\* order they were sent, each at most once (OneAtATimeInOrder); once the
\* loop has ended (Quit was handled) no step follows, so what is still
\* queued is never handled
C18_InOrderUntilLoopEnds ==
  [][OneAtATimeInOrder /\ pc \in {"load", "loop"}]_vars

\* C18 witness: two cursor keys and Enter were pressed, and the Upgrade
\* intent was handled on the row the two cursor moves before it left
C18_UpgradeAfterTwoMoves ==
  /\ pc = "loop"
  /\ nkeys = 3
  /\ last.op = "upgrade" /\ last.index = Some(1)
  /\ queue = <<>>

\* C18 as stated, every event sent is handled exactly once: when the loop
\* has ended nothing is left in the queue
C18_NothingLeftUnhandled == pc # "loop" => queue = <<>>

\* no upgrade has been applied yet: every level is as the default roster
\* has it
NothingBought == \A i \in 1..Len(resources) : resources[i].level = N0

\* C19: in a game played from the default roster no amount changes before
\* the first applied upgrade, that upgrade is Wood's, and a resource's level
\* leaves 0 only when the level of the resource before it in the roster is
\* at least 1 (Stone after Wood, Iron after Stone, Diamond after Iron); so
\* in every state a resource above level 0 has the one before it above 0
C19_TiersUnlockInOrder ==
  [][/\ NothingBought =>
          \/ \A i \in 1..Len(resources) :
               resources'[i].amount = resources[i].amount
          \/ /\ Calls("upgrade")
             /\ last'.outcome = "Applied"
             /\ last'.index = Some(0)
             /\ resources'[1].level = N1
     /\ \A i \in 2..Len(resources) :
          /\ resources[i].level # N0 => resources[i - 1].level # N0
          /\ resources'[i].level # N0 => resources[i - 1].level # N0]_vars

\* C19 witness: Diamond, the last tier, has just been bought, with 5 of the
\* Iron that Iron at level 1 made
C19_DiamondUnlockedLast ==
  /\ pc = "call"
  /\ last.op = "upgrade" /\ last.outcome = "Applied" /\ last.index = Some(3)
  /\ \A i \in 1..Len(resources) : resources[i].level = N1

\* the ticks in which every resource of the games waited in makes a unit:
\* Stone at level 1 makes one in 200, and a tick more covers the rounding
UnitTicks == 201

\* ticks continue long enough for another unit
TicksContinue == pc = "loop" /\ nticks + UnitTicks <= MaxWait

\* the amounts the games waited in hold
Amounts == 0..9

\* the upgrade of row t is affordable: its cost resource holds the price
Affordable(t) ==
  /\ FindCostResource(resources, resources[t].cost.resource_type) # 0
  /\ ~InsufficientFunds(
        resources[FindCostResource(resources, resources[t].cost.resource_type)],
        upgrade_cost(resources[t], overflow_checks))

\* the level of the resource that pays the upgrade of row t
PayerLevel(t) ==
  resources[FindCostResource(resources, resources[t].cost.resource_type)].level

\* C20: with ticks sent and handled fairly and the loop running, a resource
\* at level 1 or more that holds some amount holds more later, again and
\* again while ticks continue; every upgrade whose cost resource is at level
\* 1 or more is affordable in the end; and no step of the loop changes the
\* amount of a resource at level 0
C20_WaitingPays ==
  /\ \A i \in 1..Len(DefaultResources) : \A a \in Amounts :
       (TicksContinue /\ resources[i].level # N0
          /\ resources[i].amount = NFromInt(a))
         ~> NLt(NFromInt(a), resources[i].amount)
  /\ \A t \in 1..Len(DefaultResources) :
       (pc = "loop" /\ PayerLevel(t) # N0) ~> Affordable(t)
  /\ [][\A i \in 1..Len(resources) :
          (pc = "loop" /\ resources[i].level = N0) =>
            resources'[i].amount = resources[i].amount]_vars

\* C20 witness: the player waited from Wood just bought and 0 Wood until
\* Wood's next level, 4 Wood, became affordable, Stone, Iron and Diamond
\* still at level 0 and holding nothing
C20_WoodAffordableAgain ==
  /\ pc = "loop"
  /\ last.op = "tick"
  /\ resources[1].level = N1 /\ resources[1].amount = NFromInt(4)
  /\ Affordable(1) /\ Affordable(2)
  /\ \A i \in 2..Len(resources) :
       resources[i].level = N0 /\ resources[i].amount = N0
=============================================================================
